---- MODULE Spec2Model ----
(***************************************************************************)
(* Aircraft boarding simulation.                                           *)
(*                                                                         *)
(* DiscreteSimulation.run_simulation (src/boarding_simulation.py) is       *)
(* modelled as a state machine with one action per branch of the body of   *)
(* its "for passenger in passenger_data" loop, one for the end of a tick   *)
(* (record, advance the time, test the while condition) and one for the    *)
(* return statement.  The boarding strategies are modelled by SpecOrder.   *)
(* Simulation.run and update_passengers (src/simulation.py) are modelled   *)
(* by SpecSim in the same way, one action per branch of the loop over the  *)
(* aisle.  SpecDelay draws a grid and computes a stow time on it,          *)
(* SpecPassenger calls the constructor of Passenger, SpecBackToFront and   *)
(* SpecOneRow run run_simulation on two fixed layouts.                     *)
(*                                                                         *)
(* Time is counted in whole seconds.  A passenger's walking speed enters   *)
(* the loop only as 1 / walking_speed (the delay between two moves), so    *)
(* the model carries that delay, walk_delay, instead of the speed.         *)
(***************************************************************************)
EXTENDS Integers, Sequences, FiniteSets, TLC

(***************************************************************************)
(* Bounds of the model.                                                    *)
(***************************************************************************)
\* number of rows of the aircraft of a simulated run
MaxRows == 2
\* largest number of passengers in the boarding order of a simulated run
MaxPassengers == 2
\* largest rows, seats_per_row and num_zones handed to the boarding strategies
MaxLayoutRows == 4
MaxSeatsPerRow == 6
MaxZones == 3
\* largest number the first shuffle of a strategy draws
MaxSeed == 7

\* luggage_time of the passengers of a simulated run (luggage_time >= 1); the
\* seat interference delay varies the stow time of each passenger on top of it
LuggageTime == 1

\* Sampled inputs of a simulated run.  1 / walking_speed lies in (0, 10]
\* (walking_speed >= 0.1) and is sampled per passenger.
WalkDelays == {1, 2}
TimeSteps == {1, 2}
\* seat letters of the sampled boarding orders: a window and an aisle seat on
\* each side of the aisle, so that both branches of
\* calculate_interference_delay add a delay
RunSeatLetters == {"A", "C", "D", "F"}

(***************************************************************************)
(* Aircraft and PassengerParameters.                                       *)
(***************************************************************************)
seat_layout == <<"A", "B", "C", "D", "E", "F">>
window_seats == <<"A", "F">>
middle_seats == <<"B", "E">>
aisle_seats == <<"C", "D">>

SeatsPerRowDefault == 6

seat_interference_time ==
    [s \in {"A", "B", "C", "D", "E", "F"} |->
        CASE s = "A" -> 5
          [] s = "B" -> 3
          [] s = "C" -> 0
          [] s = "D" -> 0
          [] s = "E" -> 3
          [] s = "F" -> 5]

\* Python's None in an aisle slot (passenger ids are >= 0)
None == -1

VARIABLES
    rows,               \* aircraft.rows
    seats_per_row,      \* aircraft.seats_per_row
    passenger_data,     \* the list of passenger records, in boarding order
    grid,               \* self.grid: grid[row_idx][seat_idx] in {0, 1}
    aisle,              \* self.aisle: slot -> passenger id or None
    time_elapsed,       \* self.time_elapsed
    seated_passengers,  \* self.seated_passengers
    passengers_history, \* self.passengers_history: <<time, remaining>> records
    time_limit,         \* argument time_limit
    time_step,          \* argument time_step
    pc,                 \* "for" (in the loop body), "exit" (loop left),
                        \* "done" (returned), "raised";
                        \* "setup", "generated" for the boarding strategies
    k,                  \* index into passenger_data of the for loop (1-based)
    boarding_order,     \* the boarding order: argument of run_simulation,
                        \* result of a BoardingStrategies method
    strategy,           \* the strategy that produced the order, or "none"
    num_zones,          \* argument num_zones of back_to_front, hybrid_strategy
    passengers,         \* Simulation.passengers (src/simulation.py)
    queue,              \* Simulation.run: the list queue, as indices into
                        \* passengers (1-based)
    sim_aisle,          \* Simulation.run: the list aisle, likewise
    sim_time,           \* Simulation.time
    max_time,           \* argument max_time of Simulation.run
    idx,                \* update_passengers: the loop index i, 0-based;
                        \* -1 when the loop is over
    call,               \* a call of calculate_interference_delay from line
                        \* 305 and its results, or <<>>
    first_result,       \* what the first of two calls of Simulation.run on
                        \* one object returned, or -1 before it returned
    stow_started        \* history of run_simulation: for each passenger that
                        \* has executed lines 302-310, the tick and the time
                        \* at which it did and the total_time of line 306

\* the variables of Simulation.run
simVars == <<queue, sim_aisle, sim_time, max_time, idx>>

vars == <<rows, seats_per_row, passenger_data, grid, aisle, time_elapsed,
          seated_passengers, passengers_history, time_limit, time_step, pc, k,
          boarding_order, strategy, num_zones, passengers, simVars, call,
          first_result, stow_started>>

\* what the stepping loop of run_simulation never writes
arguments == <<rows, seats_per_row, time_limit, time_step, boarding_order,
               strategy, num_zones, passengers, simVars, call, first_result>>
config == <<arguments, stow_started>>

\* Simulation.run has not been called, and no call is recorded
NoSimulationRun ==
    /\ queue = <<>>
    /\ sim_aisle = <<>>
    /\ sim_time = 0
    /\ max_time = 0
    /\ idx = -1
    /\ call = <<>>
    /\ first_result = -1

N == Len(passenger_data)

(***************************************************************************)
(* Helpers.                                                                *)
(***************************************************************************)
\* list.index(x), 0-based
IndexOf(s, x) == (CHOOSE i \in 1..Len(s) : s[i] = x) - 1

\* sequences of length n of pairwise distinct elements of S
RECURSIVE DistinctSeqs(_, _)
DistinctSeqs(S, n) ==
    IF n = 0 THEN {<<>>}
    ELSE UNION {{Append(s, x) : x \in S \ {s[i] : i \in 1..Len(s)}} :
                s \in DistinctSeqs(S, n - 1)}

seat_to_grid_position(seat) == IndexOf(seat_layout, seat)

\* DiscreteSimulation.calculate_interference_delay, on a given grid
calculate_interference_delay(g, spr, row, seat) ==
    LET seat_index == seat_to_grid_position(seat)
        js == IF seat_index <= 2
              THEN 0..(seat_index - 1)
              ELSE (seat_index + 1)..(spr - 1)
        occ == {j \in js : g[row][j] = 1}
        RECURSIVE Sum(_)
        Sum(S) == IF S = {} THEN 0
                  ELSE LET j == CHOOSE x \in S : TRUE
                       IN seat_interference_time[seat_layout[j + 1]] + Sum(S \ {j})
    IN Sum(occ)

(***************************************************************************)
(* DiscreteSimulation.run_simulation                                       *)
(***************************************************************************)
RunSeats(r) == (1..r) \X RunSeatLetters

NewPassenger(i, seat, wd, lt) ==
    [id |-> i, row |-> seat[1], seat |-> seat[2],
     walk_delay |-> wd, luggage_time |-> lt,
     status |-> "queue", current_position |-> 0, time_to_next_action |-> 0]

\* the while condition with the seated count off by one
LoopCondition_OffByOne(seated, elapsed) ==
    seated < N - 1 /\ elapsed < time_limit

\* the while condition with <= in place of the second <
LoopCondition_Le(seated, elapsed) ==
    seated < N /\ elapsed <= time_limit

\* the while condition (line 287), tested before the first tick and after
\* every tick
LoopCondition(seated, elapsed) ==
    seated < N /\ elapsed < time_limit

\* A time limit no sampled run reaches: each passenger makes at most
\* MaxRows moves, a move takes at most 2 + 2 * 2 seconds (the delay, rounded up
\* to the step, and the tick that acts), stowing at most LuggageTime + 5 +
\* 2 * 2 seconds, and in the worst case the passengers go one after the other.
BigLimit ==
    MaxPassengers * ((MaxRows + 1) * 6 + LuggageTime + 9)

TimeLimits == {0, 3, BigLimit}

\* the boarding orders sampled for a run on an aircraft of r rows
RunOrders(r) ==
    UNION {DistinctSeqs(RunSeats(r), n) : n \in 1..MaxPassengers}

\* the sampled delays 1 / walking_speed of n passengers: any, or one delay
\* for all of them
AnyDelays(n) == [1..n -> WalkDelays]
SameDelays(n) == {[i \in 1..n |-> w] : w \in WalkDelays}

\* __init__, reset() and the construction of passenger_data (lines 262-284),
\* for an aircraft of r rows and sampled arguments; one_speed tells whether
\* all passengers get one walking speed
InitRun(r, orders, limits, one_speed) ==
    /\ rows = r
    /\ seats_per_row = SeatsPerRowDefault
    /\ boarding_order \in orders
    /\ \E wd \in IF one_speed THEN SameDelays(Len(boarding_order))
                ELSE AnyDelays(Len(boarding_order)) :
         passenger_data =
             [i \in 1..Len(boarding_order) |->
                 NewPassenger(i - 1, boarding_order[i], wd[i], LuggageTime)]
    /\ grid = [x \in 1..r |-> [c \in 0..(SeatsPerRowDefault - 1) |-> 0]]
    /\ aisle = [p \in 0..r |-> None]
    /\ strategy = "none"
    /\ num_zones = 0
    /\ passengers = <<>>
    /\ time_elapsed = 0
    /\ seated_passengers = 0
    /\ passengers_history = <<>>
    /\ time_limit \in limits
    /\ time_step \in TimeSteps
    /\ pc = IF LoopCondition(0, 0) THEN "for" ELSE "exit"
    /\ k = 1
    /\ NoSimulationRun
    /\ stow_started = [i \in 1..Len(boarding_order) |-> <<>>]

Init == InitRun(MaxRows, RunOrders(MaxRows), TimeLimits, FALSE)

InFor == pc = "for" /\ k <= N
P == passenger_data[k]
SetP(r) == passenger_data' = [passenger_data EXCEPT ![k] = r]

\* lines 290-295 testing slot 1 in place of slot 0
EnterAisle_TestSlot1 ==
    /\ InFor
    /\ P.status = "queue" /\ aisle[1] = None
    /\ SetP([P EXCEPT !.status = "aisle", !.current_position = 0,
                      !.time_to_next_action = P.walk_delay])
    /\ aisle' = [aisle EXCEPT ![0] = P.id]
    /\ k' = k + 1
    /\ UNCHANGED <<config, grid, time_elapsed, seated_passengers,
                   passengers_history, pc>>

\* lines 290-295 without the test of slot 0
EnterAisle_NoSlotTest ==
    /\ InFor
    /\ P.status = "queue"
    /\ SetP([P EXCEPT !.status = "aisle", !.current_position = 0,
                      !.time_to_next_action = P.walk_delay])
    /\ aisle' = [aisle EXCEPT ![0] = P.id]
    /\ k' = k + 1
    /\ UNCHANGED <<config, grid, time_elapsed, seated_passengers,
                   passengers_history, pc>>

\* lines 290-295
EnterAisle ==
    /\ InFor
    /\ P.status = "queue" /\ aisle[0] = None
    /\ SetP([P EXCEPT !.status = "aisle", !.current_position = 0,
                      !.time_to_next_action = P.walk_delay])
    /\ aisle' = [aisle EXCEPT ![0] = P.id]
    /\ k' = k + 1
    /\ UNCHANGED <<config, grid, time_elapsed, seated_passengers,
                   passengers_history, pc>>

\* a queued passenger while slot 0 is taken: no branch of the if/elif applies
QueueWait ==
    /\ InFor
    /\ P.status = "queue" /\ aisle[0] # None
    /\ k' = k + 1
    /\ UNCHANGED <<config, passenger_data, grid, aisle, time_elapsed,
                   seated_passengers, passengers_history, pc>>

\* lines 302-310 releasing the aisle slot when the stowing starts
StartSeating_ReleaseSlot ==
    /\ InFor
    /\ P.status = "aisle" /\ P.time_to_next_action <= 0
    /\ P.current_position = P.row
    /\ LET interference_delay ==
               calculate_interference_delay(grid, seats_per_row, P.row, P.seat)
           total_time == P.luggage_time + interference_delay
       IN SetP([P EXCEPT !.time_to_next_action = total_time,
                         !.status = "seating"])
    /\ aisle' = [aisle EXCEPT ![P.current_position] = None]
    /\ k' = k + 1
    /\ UNCHANGED <<config, grid, time_elapsed, seated_passengers,
                   passengers_history, pc>>

\* lines 302-310 marking the passenger seated at once
StartSeating_Skip ==
    /\ InFor
    /\ P.status = "aisle" /\ P.time_to_next_action <= 0
    /\ P.current_position = P.row
    /\ SetP([P EXCEPT !.time_to_next_action = P.luggage_time,
                      !.status = "seated"])
    /\ k' = k + 1
    /\ UNCHANGED <<config, grid, aisle, time_elapsed, seated_passengers,
                   passengers_history, pc>>

\* lines 302-310
StartSeating ==
    /\ InFor
    /\ P.status = "aisle" /\ P.time_to_next_action <= 0
    /\ P.current_position = P.row
    /\ LET interference_delay ==
               calculate_interference_delay(grid, seats_per_row, P.row, P.seat)
           total_time == P.luggage_time + interference_delay
       IN /\ SetP([P EXCEPT !.time_to_next_action = total_time,
                            !.status = "seating"])
          /\ stow_started' =
                 [stow_started EXCEPT ![k] =
                     [tick |-> Len(passengers_history),
                      time |-> time_elapsed,
                      total_time |-> total_time]]
    /\ k' = k + 1
    /\ UNCHANGED <<arguments, grid, aisle, time_elapsed, seated_passengers,
                   passengers_history, pc>>

\* line 312 without the test of the next slot
CanMove_NoSlotTest(p) == p.current_position < p.row

\* the condition of line 312
CanMove(p) ==
    /\ p.current_position < p.row
    /\ aisle[p.current_position + 1] = None

\* lines 312-317
\* lines 312-317 without clearing the slot the passenger leaves (line 314)
MoveForward_KeepOldSlot ==
    /\ InFor
    /\ P.status = "aisle" /\ P.time_to_next_action <= 0
    /\ P.current_position # P.row
    /\ CanMove(P)
    /\ SetP([P EXCEPT !.current_position = P.current_position + 1,
                      !.time_to_next_action = P.walk_delay])
    /\ aisle' = [aisle EXCEPT ![P.current_position + 1] = P.id]
    /\ k' = k + 1
    /\ UNCHANGED <<config, grid, time_elapsed, seated_passengers,
                   passengers_history, pc>>

\* lines 312-317
MoveForward ==
    /\ InFor
    /\ P.status = "aisle" /\ P.time_to_next_action <= 0
    /\ P.current_position # P.row
    /\ CanMove(P)
    /\ SetP([P EXCEPT !.current_position = P.current_position + 1,
                      !.time_to_next_action = P.walk_delay])
    /\ aisle' = [aisle EXCEPT ![P.current_position] = None,
                              ![P.current_position + 1] = P.id]
    /\ k' = k + 1
    /\ UNCHANGED <<config, grid, time_elapsed, seated_passengers,
                   passengers_history, pc>>

\* a blocked passenger whose time_to_next_action is set as after a move
Blocked_ResetDelay ==
    /\ InFor
    /\ P.status = "aisle" /\ P.time_to_next_action <= 0
    /\ P.current_position # P.row
    /\ ~CanMove(P)
    /\ SetP([P EXCEPT !.time_to_next_action = P.walk_delay])
    /\ k' = k + 1
    /\ UNCHANGED <<config, grid, aisle, time_elapsed, seated_passengers,
                   passengers_history, pc>>

\* due to act, not at the target row, and line 312 is false: nothing happens
Blocked ==
    /\ InFor
    /\ P.status = "aisle" /\ P.time_to_next_action <= 0
    /\ P.current_position # P.row
    /\ ~CanMove(P)
    /\ k' = k + 1
    /\ UNCHANGED <<config, passenger_data, grid, aisle, time_elapsed,
                   seated_passengers, passengers_history, pc>>

\* lines 319-320
AisleWait ==
    /\ InFor
    /\ P.status = "aisle" /\ P.time_to_next_action > 0
    /\ SetP([P EXCEPT !.time_to_next_action = P.time_to_next_action - time_step])
    /\ k' = k + 1
    /\ UNCHANGED <<config, grid, aisle, time_elapsed, seated_passengers,
                   passengers_history, pc>>

\* lines 322-330 without line 328: the aisle slot is not released
TakeSeat_KeepSlot ==
    /\ InFor
    /\ P.status = "seating" /\ P.time_to_next_action <= 0
    /\ LET row_idx == P.row - 1
           seat_idx == seat_to_grid_position(P.seat)
       IN grid' = [grid EXCEPT ![row_idx + 1][seat_idx] = 1]
    /\ SetP([P EXCEPT !.status = "seated"])
    /\ seated_passengers' = seated_passengers + 1
    /\ k' = k + 1
    /\ UNCHANGED <<config, aisle, time_elapsed, passengers_history, pc>>

\* lines 322-329 without marking the seat in the grid (line 326)
TakeSeat_NoGridCell ==
    /\ InFor
    /\ P.status = "seating" /\ P.time_to_next_action <= 0
    /\ aisle' = [aisle EXCEPT ![P.current_position] = None]
    /\ SetP([P EXCEPT !.status = "seated"])
    /\ seated_passengers' = seated_passengers + 1
    /\ k' = k + 1
    /\ UNCHANGED <<config, grid, time_elapsed, passengers_history, pc>>

\* lines 322-330
TakeSeat ==
    /\ InFor
    /\ P.status = "seating" /\ P.time_to_next_action <= 0
    /\ LET row_idx == P.row - 1
           seat_idx == seat_to_grid_position(P.seat)
       IN grid' = [grid EXCEPT ![row_idx + 1][seat_idx] = 1]
    /\ aisle' = [aisle EXCEPT ![P.current_position] = None]
    /\ SetP([P EXCEPT !.status = "seated"])
    /\ seated_passengers' = seated_passengers + 1
    /\ k' = k + 1
    /\ UNCHANGED <<config, time_elapsed, passengers_history, pc>>

\* lines 331-332 counting down by 1 whatever the time step
SeatingWait_DecrementOne ==
    /\ InFor
    /\ P.status = "seating" /\ P.time_to_next_action > 0
    /\ SetP([P EXCEPT !.time_to_next_action = P.time_to_next_action - 1])
    /\ k' = k + 1
    /\ UNCHANGED <<config, grid, aisle, time_elapsed, seated_passengers,
                   passengers_history, pc>>

\* lines 331-332
SeatingWait ==
    /\ InFor
    /\ P.status = "seating" /\ P.time_to_next_action > 0
    /\ SetP([P EXCEPT !.time_to_next_action = P.time_to_next_action - time_step])
    /\ k' = k + 1
    /\ UNCHANGED <<config, grid, aisle, time_elapsed, seated_passengers,
                   passengers_history, pc>>

\* a seated passenger: no branch of the if/elif applies
SkipSeated ==
    /\ InFor
    /\ P.status = "seated"
    /\ k' = k + 1
    /\ UNCHANGED <<config, passenger_data, grid, aisle, time_elapsed,
                   seated_passengers, passengers_history, pc>>

\* lines 334-339 recording the seated count in place of the remaining count
EndTick_RecordSeated ==
    /\ pc = "for" /\ k = N + 1
    /\ passengers_history' =
           Append(passengers_history, <<time_elapsed, seated_passengers>>)
    /\ time_elapsed' = time_elapsed + time_step
    /\ pc' = IF LoopCondition(seated_passengers, time_elapsed')
             THEN "for" ELSE "exit"
    /\ k' = 1
    /\ UNCHANGED <<config, passenger_data, grid, aisle, seated_passengers>>

\* lines 334-339: record the state, advance the time; then the while
\* condition decides between another tick and the exit of the loop
EndTick ==
    /\ pc = "for" /\ k = N + 1
    /\ LET remaining == N - seated_passengers
       IN passengers_history' =
              Append(passengers_history, <<time_elapsed, remaining>>)
    /\ time_elapsed' = time_elapsed + time_step
    /\ pc' = IF LoopCondition(seated_passengers, time_elapsed')
             THEN "for" ELSE "exit"
    /\ k' = 1
    /\ UNCHANGED <<config, passenger_data, grid, aisle, seated_passengers>>

\* lines 341-343: zip(*history) of an empty history yields nothing to unpack
\* into (times, remaining), a ValueError
Return ==
    /\ pc = "exit"
    /\ pc' = IF passengers_history = <<>> THEN "raised" ELSE "done"
    /\ UNCHANGED <<config, passenger_data, grid, aisle, time_elapsed,
                   seated_passengers, passengers_history, k>>

Next ==
    \/ EnterAisle
    \/ QueueWait
    \/ StartSeating
    \/ MoveForward
    \/ Blocked
    \/ AisleWait
    \/ TakeSeat
    \/ SeatingWait
    \/ SkipSeated
    \/ EndTick
    \/ Return

Spec == Init /\ [][Next]_vars

\* Runs whose time limit is never reached.  The interpreter keeps executing
\* the loop, so a step that can be taken is taken.
InitLive == InitRun(MaxRows, RunOrders(MaxRows), {BigLimit}, FALSE)

SpecLive == InitLive /\ [][Next]_vars /\ WF_vars(Next)

(***************************************************************************)
(* The stow time of lines 302-310 as a function of the grid: a passenger   *)
(* has reached the row of a free seat of a row with any occupancy.         *)
(***************************************************************************)
\* number of rows of the grids the stow time is computed on
MaxGridRows == 1

\* total_time of lines 305-306 for a passenger of the given luggage_time
total_time(g, spr, row, seat, luggage_time) ==
    LET interference_delay == calculate_interference_delay(g, spr, row, seat)
    IN luggage_time + interference_delay

\* a grid of any occupancy; nobody is in the aisle
InitDelay ==
    /\ rows = MaxGridRows
    /\ seats_per_row = SeatsPerRowDefault
    /\ grid \in [1..MaxGridRows -> [0..(SeatsPerRowDefault - 1) -> {0, 1}]]
    /\ aisle = [p \in 0..MaxGridRows |-> None]
    /\ boarding_order = <<>>
    /\ passenger_data = <<>>
    /\ strategy = "none"
    /\ num_zones = 0
    /\ passengers = <<>>
    /\ time_elapsed = 0
    /\ seated_passengers = 0
    /\ passengers_history = <<>>
    /\ time_limit = 0
    /\ time_step = 1
    /\ pc = "grid"
    /\ k = 1
    /\ NoSimulationRun
    /\ stow_started = <<>>

\* lines 305-306 for a passenger whose seat (row, seat) is free
ServiceTime ==
    /\ pc = "grid"
    /\ \E row \in 1..rows : \E c \in 1..Len(seat_layout) :
         LET seat == seat_layout[c]
         IN /\ grid[row][seat_to_grid_position(seat)] = 0
            /\ call' =
                 [row |-> row, seat |-> seat,
                  interference_delay |->
                      calculate_interference_delay(grid, seats_per_row, row, seat),
                  total_time |->
                      total_time(grid, seats_per_row, row, seat, LuggageTime)]
    /\ pc' = "called"
    /\ UNCHANGED <<rows, seats_per_row, passenger_data, grid, aisle,
                   time_elapsed, seated_passengers, passengers_history,
                   time_limit, time_step, k, boarding_order, strategy,
                   num_zones, passengers, simVars, first_result,
                   stow_started>>

NextDelay == ServiceTime

SpecDelay == InitDelay /\ [][NextDelay]_vars

(***************************************************************************)
(* BoardingStrategies (src/boarding_simulation.py) and                     *)
(* Simulation.generate_passengers (src/simulation.py).  Each operator      *)
(* yields the list the method returns when its shuffles draw seed,         *)
(* seed + 1, ...                                                           *)
(***************************************************************************)
\* Python's range(a, b) as a list
Range(a, b) == [i \in 1..(IF b > a THEN b - a ELSE 0) |-> a + i - 1]

\* [(row, seat) for row in rs for seat in ss]
Comp(rs, ss) ==
    [i \in 1..(Len(rs) * Len(ss)) |->
        <<rs[((i - 1) \div Len(ss)) + 1], ss[((i - 1) % Len(ss)) + 1]>>]

Reverse(s) == [i \in 1..Len(s) |-> s[Len(s) + 1 - i]]
Rotate(s, r) == SubSeq(s, r + 1, Len(s)) \o SubSeq(s, 1, r)

\* np.random.shuffle.  The outcome of a shuffle is drawn by a number d: the
\* list or its reverse, rotated; d in 0..(2 * Len(s) - 1) gives every rotation
\* of both (every permutation, for a list of at most 3 elements).
Shuffled(s, d) ==
    IF s = <<>> THEN <<>>
    ELSE Rotate(IF (d \div Len(s)) % 2 = 1 THEN Reverse(s) ELSE s, d % Len(s))

\* for ... : shuffle a copy of each list of ls and extend the result with it;
\* the successive shuffles draw seed, seed + 1, ...
RECURSIVE ShuffleEachAndExtend(_, _)
ShuffleEachAndExtend(ls, seed) ==
    IF ls = <<>> THEN <<>>
    ELSE Shuffled(Head(ls), seed) \o ShuffleEachAndExtend(Tail(ls), seed + 1)

\* Aircraft.all_seats (src/boarding_simulation.py)
all_seats(r) == Comp(Range(1, r + 1), seat_layout)

random_order(r, seed) == Shuffled(all_seats(r), seed)

\* the rows of zone i (lines 125-130, 170-175)
zone_rows(r, nz, i) ==
    LET rows_per_zone == r \div nz
    IN IF i < nz - 1
       THEN Range(r - (i + 1) * rows_per_zone + 1, r - i * rows_per_zone + 1)
       ELSE Range(1, r - i * rows_per_zone + 1)

\* back_to_front shuffling the whole order in place of each zone
back_to_front_ShuffleAll(r, nz, seed) ==
    LET zones == [i \in 0..(nz - 1) |-> Comp(zone_rows(r, nz, i), seat_layout)]
    IN Shuffled(ShuffleEachAndExtend([i \in 1..nz |-> zones[i - 1]], 0), seed)

back_to_front(r, nz, seed) ==
    LET zones == [i \in 0..(nz - 1) |-> Comp(zone_rows(r, nz, i), seat_layout)]
    IN ShuffleEachAndExtend([i \in 1..nz |-> zones[i - 1]], seed)

outside_in(r, seed) ==
    LET window == Comp(Range(1, r + 1), window_seats)
        middle == Comp(Range(1, r + 1), middle_seats)
        aisle_ == Comp(Range(1, r + 1), aisle_seats)
    IN ShuffleEachAndExtend(<<window, middle, aisle_>>, seed)

\* hybrid_strategy extending the order zone by zone: the window, middle and
\* aisle group of zone 0, then those of zone 1, ...
hybrid_strategy_ZoneMajor(r, nz, seed) ==
    LET zones == [i \in 0..(nz - 1) |->
                    [window |-> Comp(zone_rows(r, nz, i), window_seats),
                     middle |-> Comp(zone_rows(r, nz, i), middle_seats),
                     aisle |-> Comp(zone_rows(r, nz, i), aisle_seats)]]
    IN ShuffleEachAndExtend(
           [i \in 1..(3 * nz) |->
               LET z == zones[(i - 1) \div 3]
               IN CASE (i - 1) % 3 = 0 -> z.window
                    [] (i - 1) % 3 = 1 -> z.middle
                    [] OTHER -> z.aisle],
           seed)

hybrid_strategy(r, nz, seed) ==
    LET zones == [i \in 0..(nz - 1) |->
                    [window |-> Comp(zone_rows(r, nz, i), window_seats),
                     middle |-> Comp(zone_rows(r, nz, i), middle_seats),
                     aisle |-> Comp(zone_rows(r, nz, i), aisle_seats)]]
    IN ShuffleEachAndExtend(
           [i \in 1..nz |-> zones[i - 1].window]
           \o [i \in 1..nz |-> zones[i - 1].middle]
           \o [i \in 1..nz |-> zones[i - 1].aisle],
           seed)

\* SeatType values and Aircraft.seat_types (src/simulation.py)
WINDOW == 0
MIDDLE == 1
AISLE == 2

seat_types(spr, seat) ==
    IF seat = 0 \/ seat = spr - 1 THEN WINDOW
    ELSE IF seat = 1 \/ seat = spr - 2 THEN MIDDLE
    ELSE AISLE

BoardingStrategy == {"RANDOM", "BACK_TO_FRONT", "OUTSIDE_IN", "HYBRID"}

\* a < b for two sort keys, tuples of integers of one length
KeyLess(a, b) ==
    \E i \in 1..Len(a) :
        /\ a[i] < b[i]
        /\ \A j \in 1..(i - 1) : a[j] = b[j]

\* list.sort(key=...): a stable sort.  The element at index i moves behind
\* the elements of smaller key and the earlier elements of equal key.
Sorted(s, key) ==
    LET pos == [i \in 1..Len(s) |->
                  1 + Cardinality({j \in 1..Len(s) :
                        \/ KeyLess(key[s[j]], key[s[i]])
                        \/ j < i /\ key[s[j]] = key[s[i]]})]
    IN [p \in 1..Len(s) |-> s[CHOOSE i \in 1..Len(s) : pos[i] = p]]

\* the number of zones of the HYBRID branch (line 126)
HybridZones == 4

\* the ordered seat list of Simulation.generate_passengers (lines 110-144)
ordered_seats(r, spr, strat, seed) ==
    LET seats == Comp(Range(0, r), Range(0, spr))
        S == {seats[i] : i \in 1..Len(seats)}
        by_type == [x \in S |-> <<seat_types(spr, x[2])>>]
    IN CASE strat = "RANDOM" -> Shuffled(seats, seed)
         [] strat = "BACK_TO_FRONT" ->
              Sorted(seats, [x \in S |-> <<0 - x[1], x[2]>>])
         [] strat = "OUTSIDE_IN" ->
              Sorted(seats, [x \in S |-> <<seat_types(spr, x[2]), x[1]>>])
         [] strat = "HYBRID" ->
              LET zones == HybridZones
                  rows_per_zone == r \div zones
                  zone_seats(zone) ==
                      Comp(Range(r - (zone + 1) * rows_per_zone,
                                 r - zone * rows_per_zone),
                           Range(0, spr))
                  RECURSIVE Extend(_)
                  Extend(zone) ==
                      IF zone = zones THEN <<>>
                      ELSE Sorted(zone_seats(zone), by_type) \o Extend(zone + 1)
              IN Extend(0)

\* the defaults of Passenger.__init__ (lines 65-66)
DefaultWalkingSpeed == 1
DefaultStowingTime == 5

\* Passenger.__init__ (lines 64-83).  The attribute stowing_remaining does
\* not exist until update_passengers sets it: hasattr_stowing_remaining
\* tells whether it does.
Passenger(passenger_id, row, seat, walking_speed, stowing_time) ==
    [id |-> passenger_id, row |-> row, seat |-> seat,
     walking_speed |-> walking_speed, stowing_time |-> stowing_time,
     boarded |-> FALSE, position |-> -1,
     hasattr_stowing_remaining |-> FALSE, stowing_remaining |-> 0]

\* lines 146-149
generate_passengers(r, spr, strat, seed) ==
    LET seats == ordered_seats(r, spr, strat, seed)
    IN [i \in 1..Len(seats) |->
           Passenger(i - 1, seats[i][1], seats[i][2],
                     DefaultWalkingSpeed, DefaultStowingTime)]

\* an aircraft layout and a num_zones argument; no order generated yet
InitOrder ==
    /\ rows \in 1..MaxLayoutRows
    /\ seats_per_row \in 1..MaxSeatsPerRow
    /\ num_zones \in 1..MaxZones
    /\ boarding_order = <<>>
    /\ strategy = "none"
    /\ passengers = <<>>
    /\ passenger_data = <<>>
    /\ grid = <<>>
    /\ aisle = <<>>
    /\ time_elapsed = 0
    /\ seated_passengers = 0
    /\ passengers_history = <<>>
    /\ time_limit = 0
    /\ time_step = 1
    /\ pc = "setup"
    /\ k = 1
    /\ NoSimulationRun
    /\ stow_started = <<>>

runVars == <<passenger_data, grid, aisle, time_elapsed, seated_passengers,
             passengers_history, time_limit, time_step, k, simVars, call,
             first_result, stow_started>>

Generated(name, order) ==
    /\ pc = "setup"
    /\ boarding_order' = order
    /\ strategy' = name
    /\ pc' = "generated"
    /\ UNCHANGED <<rows, seats_per_row, num_zones, passengers, runVars>>

Seeds == 0..MaxSeed

RandomOrder ==
    \E seed \in Seeds : Generated("random_order", random_order(rows, seed))

BackToFront ==
    \E seed \in Seeds :
        Generated("back_to_front", back_to_front(rows, num_zones, seed))

OutsideIn ==
    \E seed \in Seeds : Generated("outside_in", outside_in(rows, seed))

HybridStrategy ==
    \E seed \in Seeds :
        Generated("hybrid_strategy", hybrid_strategy(rows, num_zones, seed))

\* Simulation.__init__ with the given strategy (lines 99-103)
GeneratePassengers(strat) ==
    /\ pc = "setup"
    /\ \E seed \in Seeds :
         passengers' = generate_passengers(rows, seats_per_row, strat, seed)
    /\ strategy' = strat
    /\ pc' = "generated"
    /\ UNCHANGED <<rows, seats_per_row, num_zones, boarding_order, runVars>>

NextOrder ==
    \/ RandomOrder
    \/ BackToFront
    \/ OutsideIn
    \/ HybridStrategy
    \/ \E strat \in BoardingStrategy : GeneratePassengers(strat)

SpecOrder == InitOrder /\ [][NextOrder]_vars

(***************************************************************************)
(* Simulation.run and Simulation.update_passengers (src/simulation.py).    *)
(* queue and sim_aisle hold indices into passengers.  One action per       *)
(* branch of the body of the loop over the aisle, which runs from the last *)
(* index of the list down to 0.                                            *)
(***************************************************************************)
\* A max_time no run reaches: a passenger alone needs at most rows ticks to
\* walk and DefaultStowingTime + 1 ticks to stow, and in the worst case the
\* passengers go one after the other.
SimBigLimit ==
    MaxLayoutRows * MaxSeatsPerRow * (MaxLayoutRows + DefaultStowingTime + 2)

MaxTimes == {3, SimBigLimit}

\* Simulation.__init__ (lines 99-103): a simulation that has not run yet
InitSim ==
    /\ rows \in 1..MaxLayoutRows
    /\ seats_per_row \in 1..MaxSeatsPerRow
    /\ strategy \in BoardingStrategy
    /\ \E seed \in Seeds :
         passengers = generate_passengers(rows, seats_per_row, strategy, seed)
    /\ queue = <<>>
    /\ sim_aisle = <<>>
    /\ sim_time = 0
    /\ max_time = 0
    /\ idx = -1
    /\ call = <<>>
    /\ first_result = -1
    /\ stow_started = <<>>
    /\ pc = "constructed"
    /\ num_zones = 0
    /\ boarding_order = <<>>
    /\ passenger_data = <<>>
    /\ grid = <<>>
    /\ aisle = <<>>
    /\ time_elapsed = 0
    /\ seated_passengers = 0
    /\ passengers_history = <<>>
    /\ time_limit = 0
    /\ time_step = 1
    /\ k = 1

\* what Simulation.run never writes
simConfig == <<rows, seats_per_row, passenger_data, grid, aisle, time_elapsed,
               seated_passengers, passengers_history, time_limit, time_step,
               k, boarding_order, strategy, num_zones, call, first_result,
               stow_started>>

\* the while condition of line 172
WhileCondition(q, a) == q # <<>> \/ a # <<>>

\* lines 163-169, and the first test of the while condition
Run ==
    /\ pc = "constructed"
    /\ \E m \in MaxTimes : max_time' = m
    /\ queue' = [i \in 1..Len(passengers) |-> i]
    /\ sim_aisle' = <<>>
    /\ sim_time' = 0
    /\ pc' = IF WhileCondition(queue', sim_aisle') THEN "update" ELSE "returned"
    /\ UNCHANGED <<simConfig, passengers, idx>>

\* the condition of line 200 with > 1 in place of > 2
CanEnter_Gap1 ==
    /\ queue # <<>>
    /\ IF sim_aisle = <<>> THEN TRUE
       ELSE passengers[sim_aisle[Len(sim_aisle)]].position > 1

\* the condition of line 200
CanEnter ==
    /\ queue # <<>>
    /\ IF sim_aisle = <<>> THEN TRUE
       ELSE passengers[sim_aisle[Len(sim_aisle)]].position > 2

\* lines 200-203 with queue.pop() in place of queue.pop(0)
Admit_PopLast ==
    /\ pc = "update"
    /\ CanEnter
    /\ LET passenger == queue[Len(queue)]
       IN /\ queue' = SubSeq(queue, 1, Len(queue) - 1)
          /\ passengers' = [passengers EXCEPT ![passenger].position = 0]
          /\ sim_aisle' = Append(sim_aisle, passenger)
    /\ idx' = Len(sim_aisle') - 1
    /\ pc' = "loop"
    /\ UNCHANGED <<simConfig, sim_time, max_time>>

\* lines 200-203, then the loop starts at the last index of the aisle
Admit ==
    /\ pc = "update"
    /\ CanEnter
    /\ LET passenger == queue[1]
       IN /\ queue' = Tail(queue)
          /\ passengers' = [passengers EXCEPT ![passenger].position = 0]
          /\ sim_aisle' = Append(sim_aisle, passenger)
    /\ idx' = Len(sim_aisle') - 1
    /\ pc' = "loop"
    /\ UNCHANGED <<simConfig, sim_time, max_time>>

\* line 200 is false: nobody enters
NoAdmit ==
    /\ pc = "update"
    /\ ~CanEnter
    /\ idx' = Len(sim_aisle) - 1
    /\ pc' = "loop"
    /\ UNCHANGED <<simConfig, passengers, queue, sim_aisle, sim_time, max_time>>

InLoop == pc = "loop" /\ idx >= 0
\* passenger = aisle[i]
SimP == passengers[sim_aisle[idx + 1]]
SetSimP(r) == passengers' = [passengers EXCEPT ![sim_aisle[idx + 1]] = r]
\* aisle.pop(i)
Pop(s, i) == [j \in 1..(Len(s) - 1) |-> IF j <= i THEN s[j] ELSE s[j + 1]]

\* lines 210-220: at the row, first visit
StartStowing ==
    /\ InLoop
    /\ SimP.position = SimP.row
    /\ ~SimP.hasattr_stowing_remaining
    /\ SetSimP([SimP EXCEPT !.hasattr_stowing_remaining = TRUE,
                            !.stowing_remaining = SimP.stowing_time])
    /\ idx' = idx - 1
    /\ UNCHANGED <<simConfig, queue, sim_aisle, sim_time, max_time, pc>>

\* lines 212-214: one second of stowing, some is left
Stow ==
    /\ InLoop
    /\ SimP.position = SimP.row
    /\ SimP.hasattr_stowing_remaining
    /\ SimP.stowing_remaining - 1 > 0
    /\ SetSimP([SimP EXCEPT !.stowing_remaining = SimP.stowing_remaining - 1])
    /\ idx' = idx - 1
    /\ UNCHANGED <<simConfig, queue, sim_aisle, sim_time, max_time, pc>>

\* lines 212-216 without line 217: the passenger stays in the aisle list
Board_KeepInAisle ==
    /\ InLoop
    /\ SimP.position = SimP.row
    /\ SimP.hasattr_stowing_remaining
    /\ SimP.stowing_remaining - 1 <= 0
    /\ SetSimP([SimP EXCEPT !.stowing_remaining = SimP.stowing_remaining - 1,
                            !.boarded = TRUE])
    /\ idx' = idx - 1
    /\ UNCHANGED <<simConfig, queue, sim_aisle, sim_time, max_time, pc>>

\* lines 212-217: the last second of stowing; the passenger leaves the aisle
Board ==
    /\ InLoop
    /\ SimP.position = SimP.row
    /\ SimP.hasattr_stowing_remaining
    /\ SimP.stowing_remaining - 1 <= 0
    /\ SetSimP([SimP EXCEPT !.stowing_remaining = SimP.stowing_remaining - 1,
                            !.boarded = TRUE])
    /\ sim_aisle' = Pop(sim_aisle, idx)
    /\ idx' = idx - 1
    /\ UNCHANGED <<simConfig, queue, sim_time, max_time, pc>>

\* lines 223-230 finding nobody in the way
can_move_Always(passenger) == TRUE

\* lines 223-230
can_move(passenger) ==
    \A j \in 1..Len(sim_aisle) :
        LET other == passengers[sim_aisle[j]]
        IN ~(/\ other # passenger
             /\ other.position > passenger.position
             /\ other.position - passenger.position <= passenger.walking_speed)

Min(a, b) == IF a <= b THEN a ELSE b

\* lines 232-236
Walk ==
    /\ InLoop
    /\ SimP.position # SimP.row
    /\ can_move(SimP)
    /\ LET steps == Min(SimP.walking_speed, SimP.row - SimP.position)
       IN SetSimP([SimP EXCEPT !.position = SimP.position + steps])
    /\ idx' = idx - 1
    /\ UNCHANGED <<simConfig, queue, sim_aisle, sim_time, max_time, pc>>

\* line 232 is false: the passenger stays where it is
WaitBehind ==
    /\ InLoop
    /\ SimP.position # SimP.row
    /\ ~can_move(SimP)
    /\ idx' = idx - 1
    /\ UNCHANGED <<simConfig, passengers, queue, sim_aisle, sim_time,
                   max_time, pc>>

\* lines 177-189: the loop over the aisle is over; the time advances, then
\* the timeout test and the while condition decide whether run returns
EndUpdate ==
    /\ pc = "loop" /\ idx = -1
    /\ sim_time' = sim_time + 1
    /\ pc' = IF sim_time' >= max_time THEN "returned"
             ELSE IF WhileCondition(queue, sim_aisle) THEN "update"
             ELSE "returned"
    /\ UNCHANGED <<simConfig, passengers, queue, sim_aisle, max_time, idx>>

NextSim ==
    \/ Run
    \/ Admit
    \/ NoAdmit
    \/ StartStowing
    \/ Stow
    \/ Board
    \/ Walk
    \/ WaitBehind
    \/ EndUpdate

SpecSim == InitSim /\ [][NextSim]_vars

\* The interpreter keeps executing the loop, so a step that can be taken is
\* taken.
SpecSimLive == InitSim /\ [][NextSim]_vars /\ WF_vars(NextSim)

\* A caller that calls run() a second time on the same object, with the same
\* max_time, once the first call has returned: lines 163-169 again. Nothing
\* in run resets the passengers (position, boarded, stowing_remaining).
RunAgain ==
    /\ pc = "returned"
    /\ first_result = -1
    /\ first_result' = sim_time
    /\ queue' = [i \in 1..Len(passengers) |-> i]
    /\ sim_aisle' = <<>>
    /\ sim_time' = 0
    /\ pc' = IF WhileCondition(queue', sim_aisle') THEN "update" ELSE "returned"
    /\ UNCHANGED <<rows, seats_per_row, passenger_data, grid, aisle,
                   time_elapsed, seated_passengers, passengers_history,
                   time_limit, time_step, k, boarding_order, strategy,
                   num_zones, call, passengers, max_time, idx, stow_started>>

NextSimTwice == NextSim \/ RunAgain
SpecSimTwice == InitSim /\ [][NextSimTwice]_vars

\* both stepping loops: a run of run_simulation whose time limit is never
\* reached, or a run of Simulation.run
InitBoth == InitLive \/ InitSim
NextBoth == Next \/ NextSim
SpecBoth == InitBoth /\ [][NextBoth]_vars

(***************************************************************************)
(* Passenger.__init__ called with any walking speed and stowing time.      *)
(***************************************************************************)
WalkingSpeeds == {-1, 0, 1}
StowingTimes == {-1, 0, 5}

\* a layout; no passenger created yet
InitPassenger ==
    /\ rows \in 1..MaxLayoutRows
    /\ seats_per_row \in 1..MaxSeatsPerRow
    /\ passengers = <<>>
    /\ strategy = "none"
    /\ num_zones = 0
    /\ boarding_order = <<>>
    /\ passenger_data = <<>>
    /\ grid = <<>>
    /\ aisle = <<>>
    /\ time_elapsed = 0
    /\ seated_passengers = 0
    /\ passengers_history = <<>>
    /\ time_limit = 0
    /\ time_step = 1
    /\ pc = "new"
    /\ k = 1
    /\ NoSimulationRun
    /\ stow_started = <<>>

\* Passenger(passenger_id, row, seat, walking_speed, stowing_time): the
\* constructor stores its arguments and raises nothing (lines 77-83)
CreatePassenger ==
    /\ pc = "new"
    /\ \E row \in 0..(rows - 1) : \E seat \in 0..(seats_per_row - 1) :
       \E walking_speed \in WalkingSpeeds : \E stowing_time \in StowingTimes :
         passengers' =
             <<Passenger(0, row, seat, walking_speed, stowing_time)>>
    /\ pc' = "created"
    /\ UNCHANGED <<simConfig, simVars>>

NextPassenger == CreatePassenger

SpecPassenger == InitPassenger /\ [][NextPassenger]_vars

(***************************************************************************)
(* run_simulation on the order of the BACK_TO_FRONT branch of              *)
(* Simulation.generate_passengers: the rows from the rear to the front,    *)
(* the seats of a row from A to F; one walking speed for all passengers.   *)
(***************************************************************************)
\* number of rows of the aircraft boarded back to front
BackToFrontRows == 3

\* a time limit that n passengers on r rows do not reach (as BigLimit)
LimitFor(n, r) == n * ((r + 1) * 6 + LuggageTime + 9)

\* the seats of the passengers of generate_passengers as run_simulation
\* names them: rows from 1, seat letters
StrictBackToFront(r) ==
    LET seats == ordered_seats(r, SeatsPerRowDefault, "BACK_TO_FRONT", 0)
    IN [i \in 1..Len(seats) |->
           <<seats[i][1] + 1, seat_layout[seats[i][2] + 1]>>]

InitBackToFront ==
    InitRun(BackToFrontRows, {StrictBackToFront(BackToFrontRows)},
            {LimitFor(BackToFrontRows * SeatsPerRowDefault, BackToFrontRows)},
            TRUE)

SpecBackToFront == InitBackToFront /\ [][Next]_vars

(***************************************************************************)
(* run_simulation on an aircraft of one row, its six seats in every        *)
(* boarding order; one walking speed for all passengers.                   *)
(***************************************************************************)
OneRowOrders ==
    DistinctSeqs({1} \X {seat_layout[c] : c \in 1..SeatsPerRowDefault},
                 SeatsPerRowDefault)

InitOneRow ==
    InitRun(1, OneRowOrders, {LimitFor(SeatsPerRowDefault, 1)}, TRUE)

SpecOneRow == InitOneRow /\ [][Next]_vars

(***************************************************************************)
(* Properties of DiscreteSimulation.run_simulation                         *)
(***************************************************************************)
InAisleOrStowing(i) == passenger_data[i].status \in {"aisle", "seating"}
Returned == pc \in {"done", "raised"}
AfterTick == passengers_history # <<>> /\ (pc = "for" => k = 1)
LastRecord == passengers_history[Len(passengers_history)]

\* C1: no two passengers that are in the aisle or stowing have the same
\* current_position; it holds after every tick and between any two steps of
\* a tick as well.
C1_OneOccupantPerSlot ==
    \A i, j \in 1..N :
        (i # j /\ InAisleOrStowing(i) /\ InAisleOrStowing(j))
            => passenger_data[i].current_position
                   # passenger_data[j].current_position

\* a tick has ended with one passenger right behind another one and due to act
C1_Witness ==
    /\ AfterTick
    /\ \E i, j \in 1..N :
         /\ InAisleOrStowing(i)
         /\ passenger_data[j].status = "aisle"
         /\ passenger_data[j].time_to_next_action <= 0
         /\ passenger_data[j].row > passenger_data[j].current_position
         /\ passenger_data[i].current_position
                = passenger_data[j].current_position + 1

\* C2: with a time limit that is never reached, every run ends, returns, and
\* has then seated every passenger.
C2_AllSeatedEventually ==
    <>(pc = "done" /\ seated_passengers = N
          /\ \A i \in 1..N : passenger_data[i].status = "seated")

\* a run of several passengers has returned before its time limit, after a
\* passenger had to queue behind another one
C2_Witness ==
    /\ pc = "done"
    /\ N >= 2
    /\ seated_passengers = N
    /\ time_elapsed < time_limit
    /\ \E i \in 1..(N - 1) :
         passenger_data[i].row <= passenger_data[i + 1].row

StatusStep(a, b) ==
    \/ a = b
    \/ a = "queue" /\ b = "aisle"
    \/ a = "aisle" /\ b = "seating"
    \/ a = "seating" /\ b = "seated"

\* C3: a step changes a passenger's status, if at all, to the next status of
\* queue -> aisle -> seating -> seated.
C3_StatusOrder ==
    [][\A i \in 1..N :
          StatusStep(passenger_data[i].status, passenger_data'[i].status)]_vars

\* one passenger has gone through every status while another is stowing
C3_Witness ==
    /\ \E i \in 1..N : passenger_data[i].status = "seated"
    /\ \E i \in 1..N : passenger_data[i].status = "seating"

NonIncreasing(h) ==
    \A i \in 1..(Len(h) - 1) : h[i + 1][2] <= h[i][2]

\* C4: when a run has returned with every passenger seated, the recorded
\* remaining counts never increase and the last one is 0.
C4_RemainingDecreasesToZero ==
    (pc = "done" /\ seated_passengers = N)
        => /\ NonIncreasing(passengers_history)
           /\ LastRecord[2] = 0

\* a completed run whose first record still counts every passenger
C4_Witness ==
    /\ pc = "done"
    /\ seated_passengers = N
    /\ N >= 2
    /\ passengers_history[1][2] = N
    /\ LastRecord[2] = 0

\* C5: a run that the time limit ends before anyone is seated returns a
\* non-empty time series whose last remaining count is N or N - 1; it does
\* not raise.
C5_TimeoutReturnsSeries ==
    (Returned /\ seated_passengers = 0)
        => /\ pc = "done"
           /\ passengers_history # <<>>
           /\ LastRecord[2] \in {N, N - 1}

\* C6: the recorded times start at 0, grow by time_step and stay below
\* time_limit; the loop body runs only while time_elapsed < time_limit.
C6_RecordedTimes ==
    /\ passengers_history # <<>> => passengers_history[1][1] = 0
    /\ \A i \in 1..(Len(passengers_history) - 1) :
         passengers_history[i + 1][1] = passengers_history[i][1] + time_step
    /\ \A i \in 1..Len(passengers_history) :
         passengers_history[i][1] < time_limit
    /\ pc = "for" => time_elapsed < time_limit

\* a run with a step of 2 that the time limit has cut short after two ticks
C6_Witness ==
    /\ pc = "done"
    /\ time_step = 2
    /\ seated_passengers < N
    /\ Len(passengers_history) >= 2
    /\ LastRecord[1] + time_step >= time_limit

(***************************************************************************)
(* Properties of the boarding orders                                       *)
(***************************************************************************)
Elements(s) == {s[i] : i \in 1..Len(s)}
NoDuplicates(s) == \A i, j \in 1..Len(s) : s[i] = s[j] => i = j

\* C8: the list a BoardingStrategies method returns holds every seat of the
\* layout once and has rows x seats_per_row entries.
C8_StrategyPermutation ==
    (pc = "generated" /\ strategy \in {"random_order", "back_to_front",
                                        "outside_in", "hybrid_strategy"})
        => /\ Len(boarding_order) = rows * seats_per_row
           /\ NoDuplicates(boarding_order)
           /\ Elements(boarding_order) = Elements(all_seats(rows))

\* C9: Simulation.generate_passengers creates one passenger per seat of the
\* rows x seats_per_row layout, for each strategy.
C9_OnePassengerPerSeat ==
    (pc = "generated" /\ strategy \in BoardingStrategy)
        => /\ Len(passengers) = rows * seats_per_row
           /\ NoDuplicates([i \in 1..Len(passengers) |->
                               <<passengers[i].row, passengers[i].seat>>])
           /\ {<<passengers[i].row, passengers[i].seat>> :
                   i \in 1..Len(passengers)}
                  = (0..(rows - 1)) \X (0..(seats_per_row - 1))

(***************************************************************************)
(* Properties of the seat interference delay                               *)
(***************************************************************************)
\* C10: on the grid of any moment of a run, calculate_interference_delay is 0
\* for the aisle seats C and D of every row.
C10_AisleSeatNoDelay ==
    \A row \in 1..rows : \A i \in 1..Len(aisle_seats) :
        calculate_interference_delay(grid, seats_per_row, row, aisle_seats[i]) = 0

\* the indices of the seats between a seat and the aisle, on its side of the
\* row (seats 2 and 3 are next to the aisle)
BetweenSeatAndAisle(seat_index) ==
    IF seat_index <= 2 THEN (seat_index + 1)..2 ELSE 3..(seat_index - 1)

\* C11: the stow of a passenger is delayed exactly when a seat between the
\* passenger's seat and the aisle, on the same side of the row, is occupied:
\* those occupants, and no others, add delay.
C11_DelayedByOccupantsTowardsAisle ==
    pc = "called"
        => LET between ==
                   BetweenSeatAndAisle(seat_to_grid_position(call.seat))
           IN (call.interference_delay > 0)
                  <=> (\E j \in between : grid[call.row][j] = 1)

\* C12: of two free seats on one side of a row, the one nearer the aisle
\* gets at most the stow time (luggage_time + interference delay) of the one
\* nearer the window, for one luggage_time and the occupancy of the moment.
C12_ServiceTimeGrowsTowardsWindow ==
    \A row \in 1..rows : \A s, t \in 0..(seats_per_row - 1) :
        (/\ grid[row][s] = 0 /\ grid[row][t] = 0
         /\ s \in BetweenSeatAndAisle(t))
            => total_time(grid, seats_per_row, row, seat_layout[s + 1],
                          LuggageTime)
                 <= total_time(grid, seats_per_row, row, seat_layout[t + 1],
                               LuggageTime)

(***************************************************************************)
(* Properties of the entry into the aisle                                  *)
(***************************************************************************)
SimRunning == pc \in {"update", "loop", "returned"}

\* C13: passengers leave the queue in the order of their index.  In
\* run_simulation no passenger has left the queue while one of smaller index
\* is queued; in Simulation.run the queue is always the passengers from some
\* index on, in their order.
C13_EntryInIndexOrder ==
    /\ \A i, j \in 1..N :
         (i < j /\ passenger_data[i].status = "queue")
             => passenger_data[j].status = "queue"
    /\ SimRunning
         => queue = [i \in 1..Len(queue) |->
                        Len(passengers) - Len(queue) + i]

\* run_simulation: the second passenger has entered while the first, which
\* entered before it, is still in the aisle
C13_Witness ==
    /\ N >= 2
    /\ passenger_data[1].status = "aisle"
    /\ passenger_data[2].status = "aisle"

(***************************************************************************)
(* Boarding strictly back to front                                         *)
(***************************************************************************)
RearRowPassengers == {i \in 1..N : passenger_data[i].row = rows}
FrontRowPassengers == {i \in 1..N : passenger_data[i].row = 1}

\* C14: when a passenger of the front row has entered the aisle, every
\* passenger of the rearmost row was seated by the end of an earlier tick.
\* The passengers take their seats in boarding order (first conjunct), those
\* of the rearmost row come first in that order, so they are the first to be
\* seated; the last record is the count at the end of the tick before.
C14_RearSeatedBeforeFrontEnters ==
    /\ \A i, j \in 1..N :
         (i < j /\ passenger_data[j].status = "seated")
             => passenger_data[i].status = "seated"
    /\ \A i \in RearRowPassengers : \A j \in FrontRowPassengers : i < j
    /\ (\E j \in FrontRowPassengers : passenger_data[j].status # "queue")
         => /\ \A i \in RearRowPassengers :
                 passenger_data[i].status = "seated"
            /\ passengers_history # <<>>
            /\ N - LastRecord[2] >= Cardinality(RearRowPassengers)

\* the first passenger of the front row has just entered the aisle
C14_Witness ==
    /\ rows = BackToFrontRows
    /\ \E j \in FrontRowPassengers :
         /\ passenger_data[j].status = "aisle"
         /\ passenger_data[j].current_position = 0
         /\ \A i \in FrontRowPassengers \ {j} :
              passenger_data[i].status = "queue"

(***************************************************************************)
(* Boarding one row                                                        *)
(***************************************************************************)
Max(S) == CHOOSE x \in S : \A y \in S : y <= x

\* On one row the passengers stow one after the other, in boarding order:
\* passenger i starts stowing on the grid that holds the seats of the
\* passengers before it, with the service time luggage_time + interference.
GridBefore(i) ==
    [x \in 1..rows |-> [c \in 0..(SeatsPerRowDefault - 1) |->
        IF \E j \in 1..(i - 1) : boarding_order[j] = <<x, seat_layout[c + 1]>>
        THEN 1 ELSE 0]]
ServiceTimeOf(i) ==
    total_time(GridBefore(i), seats_per_row, passenger_data[i].row,
               passenger_data[i].seat, passenger_data[i].luggage_time)
LargestServiceTime == Max({ServiceTimeOf(i) : i \in 1..N})
LargestWalkDelay == Max({passenger_data[i].walk_delay : i \in 1..N})

C16_NonPositiveRejected ==
    pc = "created"
        => \A i \in 1..Len(passengers) :
               /\ passengers[i].walking_speed > 0
               /\ passengers[i].stowing_time > 0

(***************************************************************************)
(* Properties of the zoned boarding orders                                 *)
(***************************************************************************)
\* the zone of a row for back_to_front and hybrid_strategy (zone 0 is the
\* rearmost), and for the HYBRID branch of generate_passengers (rows from 0)
ZoneOfRow(row) ==
    CHOOSE i \in 0..(num_zones - 1) :
        row \in Elements(zone_rows(rows, num_zones, i))
HybridZoneOfRow(row) == (rows - 1 - row) \div (rows \div HybridZones)

\* the seat type of a seat letter
TypeOfLetter(seat) ==
    CASE seat \in Elements(window_seats) -> WINDOW
      [] seat \in Elements(middle_seats) -> MIDDLE
      [] seat \in Elements(aisle_seats) -> AISLE

\* the order of generate_passengers is zone-major: rearward zones first, and
\* window, middle, aisle inside a zone
HybridPassengersZoneMajor ==
    (pc = "generated" /\ strategy = "HYBRID")
        => \A a, b \in 1..Len(passengers) :
             a < b =>
               LET za == HybridZoneOfRow(passengers[a].row)
                   zb == HybridZoneOfRow(passengers[b].row)
                   ta == seat_types(seats_per_row, passengers[a].seat)
                   tb == seat_types(seats_per_row, passengers[b].seat)
               IN za <= zb /\ (za = zb => ta <= tb)

\* C17 as stated: both hybrid orders are zone-major, every seat of a
\* rearward zone before every seat of a more forward zone, and inside a zone
\* the window seats before the middle seats before the aisle seats.
C17_HybridZoneMajor ==
    /\ HybridPassengersZoneMajor
    /\ (pc = "generated" /\ strategy = "hybrid_strategy")
         => \A a, b \in 1..Len(boarding_order) :
              a < b =>
                LET za == ZoneOfRow(boarding_order[a][1])
                    zb == ZoneOfRow(boarding_order[b][1])
                    ta == TypeOfLetter(boarding_order[a][2])
                    tb == TypeOfLetter(boarding_order[b][2])
                IN za <= zb /\ (za = zb => ta <= tb)

\* C17, amended: the order of generate_passengers is zone-major; the order of
\* hybrid_strategy is seat-type-major: the window seats before the middle
\* seats before the aisle seats, and among the seats of one type those of a
\* rearward zone before those of a more forward zone.
C17_HybridStrategyTypeMajor ==
    /\ HybridPassengersZoneMajor
    /\ (pc = "generated" /\ strategy = "hybrid_strategy")
         => \A a, b \in 1..Len(boarding_order) :
              a < b =>
                LET za == ZoneOfRow(boarding_order[a][1])
                    zb == ZoneOfRow(boarding_order[b][1])
                    ta == TypeOfLetter(boarding_order[a][2])
                    tb == TypeOfLetter(boarding_order[b][2])
                IN ta <= tb /\ (ta = tb => za <= zb)

\* hybrid_strategy has returned an order in which a window seat of a forward
\* zone comes before an aisle seat of a rearward zone
C17_Witness ==
    /\ pc = "generated" /\ strategy = "hybrid_strategy"
    /\ \E a, b \in 1..Len(boarding_order) :
         /\ a < b
         /\ ZoneOfRow(boarding_order[a][1]) > ZoneOfRow(boarding_order[b][1])
         /\ TypeOfLetter(boarding_order[a][2]) = WINDOW
         /\ TypeOfLetter(boarding_order[b][2]) = AISLE

\* C18: in the order of back_to_front, for any num_zones >= 1, a seat of a
\* rearward zone comes before every seat of a more forward zone: of two seats
\* in different zones the one with the larger row number boards first.
C18_BackToFrontZoneOrder ==
    (pc = "generated" /\ strategy = "back_to_front")
        => \A a, b \in 1..Len(boarding_order) :
             a < b =>
               LET za == ZoneOfRow(boarding_order[a][1])
                   zb == ZoneOfRow(boarding_order[b][1])
               IN /\ za <= zb
                  /\ za # zb => boarding_order[a][1] > boarding_order[b][1]

\* back_to_front has returned an order over several zones in which a zone of
\* several rows is not in row order
C18_Witness ==
    /\ pc = "generated" /\ strategy = "back_to_front"
    /\ \E a, b \in 1..Len(boarding_order) :
         ZoneOfRow(boarding_order[a][1]) # ZoneOfRow(boarding_order[b][1])
    /\ \E a, b \in 1..Len(boarding_order) :
         /\ a < b
         /\ ZoneOfRow(boarding_order[a][1]) = ZoneOfRow(boarding_order[b][1])
         /\ boarding_order[a][1] < boarding_order[b][1]

(***************************************************************************)
(* Properties of the order of the steps of a tick                          *)
(***************************************************************************)
\* Passenger i has been processed in the current tick (i < k), and that step
\* moved it from slot 0 to slot 1, or let it enter slot 0: either step sets
\* time_to_next_action to walk_delay, which the next tick's step lowers.
MovedToSlot1ThisTick(i) ==
    /\ i < k
    /\ passenger_data[i].status = "aisle"
    /\ passenger_data[i].current_position = 1
    /\ passenger_data[i].time_to_next_action = passenger_data[i].walk_delay
EnteredThisTick(i) ==
    /\ i < k
    /\ passenger_data[i].status = "aisle"
    /\ passenger_data[i].current_position = 0
    /\ passenger_data[i].time_to_next_action = passenger_data[i].walk_delay

\* C19 as stated: a passenger enters slot 0 only in a tick at whose start
\* slot 0 was empty: in no tick does one passenger leave slot 0 and another
\* enter it.
C19_EntryOnlyIfEmptyAtTickStart ==
    \A i, j \in 1..N :
        ~(MovedToSlot1ThisTick(j) /\ EnteredThisTick(i))

\* C19, amended: a passenger leaves the queue only in its own step of the
\* for loop and only if slot 0 is empty at that step; it then holds slot 0.
C19_EntryOnlyIfEmptyWhenProcessed ==
    [][\A i \in 1..N :
          (passenger_data[i].status = "queue"
             /\ passenger_data'[i].status # "queue")
            => /\ i = k
               /\ aisle[0] = None
               /\ aisle'[0] = passenger_data[i].id
               /\ passenger_data'[i].status = "aisle"]_vars

\* in one tick the first passenger has moved from slot 0 to slot 1 and the
\* second has entered slot 0
C19_Witness ==
    /\ N >= 2
    /\ MovedToSlot1ThisTick(1)
    /\ EnteredThisTick(2)

\* C20: update_passengers processes the aisle from front to back: when a
\* passenger is about to be processed, every passenger of the aisle at a
\* larger position has been processed in this tick (the processed ones are
\* the entries of the list behind index idx).
C20_ProcessedFrontToBack ==
    InLoop
        => \A j \in 1..Len(sim_aisle) :
               passengers[sim_aisle[j]].position > SimP.position
                   => j > idx + 1

(***************************************************************************)
(* Properties of Simulation.run and Simulation.update_passengers           *)
(***************************************************************************)
NobodyAtPosition0 ==
    \A j \in 1..Len(sim_aisle) : passengers[sim_aisle[j]].position # 0

\* the step admits the head of the queue at position 0
HeadAdmitted ==
    /\ queue # <<>>
    /\ queue' = Tail(queue)
    /\ sim_aisle' = Append(sim_aisle, queue[1])
    /\ passengers'[queue[1]].position = 0

\* C21 as stated: a call of update_passengers that finds the queue non-empty
\* and nobody at position 0 admits the head of the queue at position 0.
C21_AdmittedWhenPosition0Free ==
    [][(pc = "update" /\ queue # <<>> /\ NobodyAtPosition0)
          => HeadAdmitted]_vars

\* C21, amended: a call of update_passengers admits the head of the queue
\* at position 0 exactly when the queue is non-empty and the aisle is empty
\* or the passenger that entered last stands at a position > 2; position 0
\* is then free.  Otherwise queue and aisle stay as they are.
C21_AdmittedWhenLastBeyond2 ==
    [][pc = "update"
          => IF queue # <<>>
                /\ (sim_aisle # <<>>
                      => passengers[sim_aisle[Len(sim_aisle)]].position > 2)
             THEN HeadAdmitted /\ NobodyAtPosition0
             ELSE UNCHANGED <<queue, sim_aisle, passengers>>]_vars

\* a call has admitted nobody although the queue is non-empty and position 0
\* is free: the passenger that entered last stands at position 1 or 2
C21_Witness ==
    /\ pc = "loop"
    /\ idx = Len(sim_aisle) - 1
    /\ queue # <<>>
    /\ sim_aisle # <<>>
    /\ NobodyAtPosition0
    /\ passengers[sim_aisle[Len(sim_aisle)]].position \in {1, 2}

(***************************************************************************)
(* Further properties of DiscreteSimulation.run_simulation                 *)
(***************************************************************************)
\* C22: a stowing passenger stands at its target row and the aisle slot of
\* that row holds its id, at every step from the one that makes it 'seating'
\* to the one that makes it 'seated'; once it is 'seated' no slot holds its
\* id.  No other passenger holds the slot meanwhile, a slot holding one id.
C22_StowingKeepsSlot ==
    \A i \in 1..N :
        LET p == passenger_data[i]
        IN /\ p.status = "seating"
                => /\ p.current_position = p.row
                   /\ aisle[p.row] = p.id
           /\ p.status = "seated"
                => \A slot \in 0..rows : aisle[slot] # p.id

\* a passenger is stowing while the next one, due to move, waits in the slot
\* behind it
C22_Witness ==
    \E i, j \in 1..N :
        /\ passenger_data[i].status = "seating"
        /\ passenger_data[i].time_to_next_action > 0
        /\ passenger_data[j].status = "aisle"
        /\ passenger_data[j].time_to_next_action <= 0
        /\ passenger_data[j].current_position + 1 = passenger_data[i].row
        /\ passenger_data[j].row >= passenger_data[i].row

\* the passenger the for loop is at is in the aisle, due to act, short of its
\* target row, and the next slot is occupied
BlockedPassenger ==
    /\ InFor
    /\ P.status = "aisle"
    /\ P.time_to_next_action <= 0
    /\ P.current_position < P.row
    /\ aisle[P.current_position + 1] # None

\* C23: processing a passenger that is due to act, short of its target row
\* and behind an occupied slot changes nothing: the records of all
\* passengers (position, status, time_to_next_action), the aisle, the grid
\* and the seated count stay as they are.
C23_BlockedChangesNothing ==
    [][BlockedPassenger
          => UNCHANGED <<passenger_data, aisle, grid, seated_passengers,
                         passengers_history, time_elapsed>>]_vars

\* the second passenger is about to be processed, due to move, and stands
\* right behind the first
C23_Witness ==
    /\ BlockedPassenger
    /\ k = 2
    /\ aisle[P.current_position + 1] = passenger_data[1].id

AllBoarded == \A i \in 1..Len(passengers) : passengers[i].boarded

\* C24: Simulation.run returns, for every strategy and layout; when its
\* max_time is the large one it returns before max_time, with the queue and
\* the aisle empty and every generated passenger boarded.
C24_RunTerminatesAllBoarded ==
    <>(/\ pc = "returned"
       /\ max_time = SimBigLimit
             => /\ sim_time < max_time
                /\ queue = <<>>
                /\ sim_aisle = <<>>
                /\ AllBoarded)

\* a run of at least four rows, in which passengers share the aisle, has
\* returned before the large max_time
C24_Witness ==
    /\ pc = "returned"
    /\ max_time = SimBigLimit
    /\ sim_time < max_time
    /\ rows >= 4
    /\ Len(passengers) >= rows
    /\ AllBoarded

\* C25: when the second of two calls of run() on one Simulation returns, its
\* boarding time is the one the first call returned.
C25_SecondRunSameTime ==
    (pc = "returned" /\ first_result # -1) => sim_time = first_result

\* C26: the aisle array and the passenger records agree, after every tick and
\* between the steps of a tick: slot p holds the id of passenger i exactly
\* when i is in the aisle or stowing with current_position p, and a slot that
\* is not None holds the id of some passenger; so queued and seated
\* passengers are in no slot.
C26_AisleAgreesWithRecords ==
    \A p \in DOMAIN aisle :
        /\ \A i \in 1..N :
              aisle[p] = passenger_data[i].id
                  <=> (InAisleOrStowing(i)
                          /\ passenger_data[i].current_position = p)
        /\ aisle[p] # None => \E i \in 1..N : aisle[p] = passenger_data[i].id

C26_Witness ==
    /\ AfterTick
    /\ \E i, j \in 1..N :
          /\ passenger_data[i].status = "seated"
          /\ passenger_data[j].status = "seating"
          /\ aisle[passenger_data[j].current_position] = passenger_data[j].id
          /\ passenger_data[j].current_position > 0
          /\ aisle[0] = None

\* C27: of two passengers that are both in the aisle or stowing, the one
\* earlier in the boarding order is at the greater position.
C27_NoOvertaking ==
    \A i, j \in 1..N :
        (i < j /\ InAisleOrStowing(i) /\ InAisleOrStowing(j))
            => passenger_data[i].current_position
                   > passenger_data[j].current_position

C27_Witness ==
    \E i, j \in 1..N :
        /\ i < j
        /\ passenger_data[i].status = "seating"
        /\ passenger_data[j].status = "aisle"
        /\ passenger_data[j].row > passenger_data[i].row
        /\ passenger_data[j].current_position = passenger_data[i].row - 1
        /\ passenger_data[j].time_to_next_action <= 0

SeatedSet == {i \in 1..N : passenger_data[i].status = "seated"}
OccupiedCells ==
    {c \in (1..rows) \X (0..(seats_per_row - 1)) : grid[c[1]][c[2]] = 1}
SeatCell(i) ==
    <<passenger_data[i].row, seat_to_grid_position(passenger_data[i].seat)>>

\* C28: seated_passengers is the number of passengers with status "seated"
\* and the number of grid cells set to 1; the occupied cells are the seats of
\* the seated passengers, so a passenger's cell is set in the step that makes
\* the passenger seated, not before, and stays set.
C28_SeatedCountAndGrid ==
    /\ seated_passengers = Cardinality(SeatedSet)
    /\ seated_passengers = Cardinality(OccupiedCells)
    /\ OccupiedCells = {SeatCell(i) : i \in SeatedSet}

C28_Witness ==
    /\ AfterTick
    /\ seated_passengers = 1
    /\ N = 2
    /\ \E i \in 1..N : passenger_data[i].status = "seating"
    /\ Cardinality(OccupiedCells) = 1

\* C29: in the aisle list of Simulation.run the positions strictly decrease
\* from the passenger that entered first to the one that entered last.
C29_AislePositionsDecrease ==
    \A a, b \in 1..Len(sim_aisle) :
        a < b => passengers[sim_aisle[a]].position
                     > passengers[sim_aisle[b]].position

C29_Witness ==
    /\ pc = "update"
    /\ Len(sim_aisle) >= 2
    /\ \E a \in 1..Len(sim_aisle) :
          /\ passengers[sim_aisle[a]].hasattr_stowing_remaining
          /\ passengers[sim_aisle[a]].position = passengers[sim_aisle[a]].row
          /\ a < Len(sim_aisle)
          /\ passengers[sim_aisle[a + 1]].position
                 = passengers[sim_aisle[a]].position - 1

\* ceil(a / b) for a >= 0, b > 0
CeilDiv(a, b) == (a + b - 1) \div b

\* the tick being executed, or about to be: the number of completed ticks
Tick == Len(passengers_history)

\* C30: a passenger that started stowing in tick t with total stow time S is
\* marked seated in tick t + ceil(S / time_step) + 1 and in no other, and by
\* then at least S units of simulated time have passed since tick t.
C30_SeatedAfterStowTime ==
    [][\A i \in 1..N :
          (passenger_data[i].status = "seating"
              /\ passenger_data'[i].status = "seated")
            => LET started == stow_started[i]
               IN /\ Tick = started.tick
                             + CeilDiv(started.total_time, time_step) + 1
                  /\ time_elapsed - started.time >= started.total_time]_vars

C30_Witness ==
    /\ time_step = 2
    /\ \E i, j \in 1..N :
          /\ passenger_data[i].status = "seated"
          /\ passenger_data[j].status = "seated"
          /\ stow_started[i].total_time = LuggageTime
          /\ stow_started[j].total_time > LuggageTime
          /\ stow_started[j].tick > stow_started[i].tick

====
